---------------------------- MODULE Spec2Model ----------------------------
(***************************************************************************)
(* Comparison engine of the Keren Hishtalmut vs personal investment        *)
(* calculator (src/src/calculator.py, src/src/models.py).                  *)
(*                                                                         *)
(* Numbers.  The program computes with Python floats.  The model computes  *)
(* with exact dyadic rationals  (+/-) m * 2^e  whose mantissa m is an      *)
(* arbitrary-precision natural, so that sums, products and comparisons are *)
(* the exact real-number results.  Annual growth factors are drawn from    *)
(* the twelfth powers of the factors in MonthlyFactors, which makes the    *)
(* twelfth root (1 + r) ** (1/12) exact, and every monthly rate is zero or *)
(* a signed power of two, which makes the annuity division exact.          *)
(***************************************************************************)
EXTENDS Integers, Sequences, FiniteSets, TLC

-----------------------------------------------------------------------------
(* F(v) for the value v of x.  x is evaluated once, before F is entered,   *)
(* the way Python evaluates an argument or the right-hand side of an       *)
(* assignment to a local.                                                  *)

Let(x, F(_)) == CHOOSE r \in {F(v) : v \in {x}} : TRUE
Let2(x, y, F(_, _)) == CHOOSE r \in {F(v, w) : v \in {x}, w \in {y}} : TRUE
Let3(x, y, z, F(_, _, _)) == CHOOSE r \in {F(v, w, u) : v \in {x}, w \in {y}, u \in {z}} : TRUE

-----------------------------------------------------------------------------
(* Arbitrary-precision naturals: little-endian digit sequences in base     *)
(* 2^15, without leading zero digits; zero is the empty sequence.          *)

Base == 2^15

NTrim(x) ==
    Let(x, LAMBDA a :
        SubSeq(a, 1, Cardinality({i \in 1..Len(a) : \E j \in i..Len(a) : a[j] # 0})))

RECURSIVE NFromInt(_)
NFromInt(x) ==
    Let(x, LAMBDA n : IF n = 0 THEN <<>> ELSE <<n % Base>> \o NFromInt(n \div Base))

RECURSIVE NAddC(_, _, _)
NAddC(x, y, z) ==
    Let3(x, y, z, LAMBDA a, b, c :
        IF a = <<>> /\ b = <<>> THEN (IF c = 0 THEN <<>> ELSE <<c>>)
        ELSE LET s == (IF a = <<>> THEN 0 ELSE Head(a))
                      + (IF b = <<>> THEN 0 ELSE Head(b)) + c
             IN  <<s % Base>> \o NAddC(IF a = <<>> THEN <<>> ELSE Tail(a),
                                       IF b = <<>> THEN <<>> ELSE Tail(b),
                                       s \div Base))

NAdd(a, b) == NAddC(a, b, 0)

RECURSIVE NSubB(_, _, _)
NSubB(x, y, z) ==
    Let3(x, y, z, LAMBDA a, b, br :
        IF a = <<>> THEN <<>>
        ELSE LET d == Head(a) - (IF b = <<>> THEN 0 ELSE Head(b)) - br
             IN  <<d % Base>> \o NSubB(Tail(a),
                                       IF b = <<>> THEN <<>> ELSE Tail(b),
                                       IF d < 0 THEN 1 ELSE 0))

\* a - b for a >= b
NSub(a, b) == NTrim(NSubB(a, b, 0))

\* -1, 0, 1 as a < b, a = b, a > b
NCmp(x, y) ==
    Let2(x, y, LAMBDA a, b :
        IF Len(a) < Len(b) THEN -1
        ELSE IF Len(a) > Len(b) THEN 1
        ELSE IF a = b THEN 0
        ELSE LET i == CHOOSE k \in 1..Len(a) :
                          a[k] # b[k] /\ \A j \in (k + 1)..Len(a) : a[j] = b[j]
             IN  IF a[i] < b[i] THEN -1 ELSE 1)

RECURSIVE NMulSmallC(_, _, _)
NMulSmallC(x, y, z) ==
    Let3(x, y, z, LAMBDA a, d, c :
        IF a = <<>> THEN (IF c = 0 THEN <<>> ELSE <<c>>)
        ELSE LET p == Head(a) * d + c
             IN  <<p % Base>> \o NMulSmallC(Tail(a), d, p \div Base))

NShift(x) == Let(x, LAMBDA a : IF a = <<>> THEN <<>> ELSE <<0>> \o a)

RECURSIVE NMul(_, _)
NMul(x, y) ==
    Let2(x, y, LAMBDA a, b :
        IF a = <<>> \/ b = <<>> THEN <<>>
        ELSE NAdd(NTrim(NMulSmallC(b, Head(a), 0)), NShift(NMul(Tail(a), b))))

\* 2^k
NPow2(x) ==
    Let(x, LAMBDA k :
        [i \in 1..(k \div 15 + 1) |-> IF i = k \div 15 + 1 THEN 2^(k % 15) ELSE 0])

\* a / 2 for even a
NHalf(x) ==
    Let(x, LAMBDA a :
        NTrim([i \in 1..Len(a) |->
                 a[i] \div 2
                 + (IF i < Len(a) THEN (a[i + 1] % 2) * (Base \div 2) ELSE 0)]))

-----------------------------------------------------------------------------
(* Exact dyadic rationals: [neg, m, e] is (+/-) m * 2^e, with m odd; zero  *)
(* is [neg |-> FALSE, m |-> <<>>, e |-> 0].  The representation is         *)
(* canonical, so = on these records is equality of the numbers.            *)

Zero == [neg |-> FALSE, m |-> <<>>, e |-> 0]

RECURSIVE DNorm(_)
DNorm(y) ==
    Let(y, LAMBDA x :
        IF x.m = <<>> THEN Zero
        ELSE IF x.m[1] = 0 THEN DNorm([x EXCEPT !.m = Tail(x.m), !.e = x.e + 15])
        ELSE IF x.m[1] % 2 = 0 THEN DNorm([x EXCEPT !.m = NHalf(x.m), !.e = x.e + 1])
        ELSE x)

\* the number n * 2^e, for integers n and e
Dy(n, e) == DNorm([neg |-> n < 0, m |-> NFromInt(IF n < 0 THEN -n ELSE n), e |-> e])

One == [neg |-> FALSE, m |-> <<1>>, e |-> 0]

DNeg(y) == Let(y, LAMBDA x : IF x = Zero THEN Zero ELSE [x EXCEPT !.neg = ~x.neg])

\* (+/-) ma * 2^e + (+/-) mb * 2^e
DAddAligned(aneg, x, bneg, y, e) ==
    Let3(x, y, NCmp(x, y), LAMBDA ma, mb, c :
        IF aneg = bneg THEN DNorm([neg |-> aneg, m |-> NAdd(ma, mb), e |-> e])
        ELSE IF c = 0 THEN Zero
        ELSE IF c > 0 THEN DNorm([neg |-> aneg, m |-> NSub(ma, mb), e |-> e])
        ELSE DNorm([neg |-> bneg, m |-> NSub(mb, ma), e |-> e]))

DAdd(x, y) ==
    Let2(x, y, LAMBDA a, b :
        IF a = Zero THEN b
        ELSE IF b = Zero THEN a
        ELSE LET e == IF a.e < b.e THEN a.e ELSE b.e
             IN  DAddAligned(a.neg, NMul(a.m, NPow2(a.e - e)),
                             b.neg, NMul(b.m, NPow2(b.e - e)), e))

DSub(a, b) == DAdd(a, DNeg(b))

DMul(x, y) ==
    Let2(x, y, LAMBDA a, b :
        IF a = Zero \/ b = Zero THEN Zero
        ELSE [neg |-> a.neg # b.neg, m |-> NMul(a.m, b.m), e |-> a.e + b.e])

\* a / b for a divisor b that is a signed power of two
DDiv(x, y) ==
    Let2(x, y, LAMBDA a, b :
        IF a = Zero THEN Zero
        ELSE [neg |-> a.neg # b.neg, m |-> a.m, e |-> a.e - b.e])

DLt(a, b) == DSub(a, b).neg
DGt(a, b) == DLt(b, a)
DGe(a, b) == ~DLt(a, b)

\* a ** n for an integer n >= 0 (0 ** 0 = 1, as in Python)
RECURSIVE DPow(_, _)
DPow(x, k) ==
    Let2(x, k, LAMBDA a, n :
        IF n = 0 THEN One
        ELSE IF n % 2 = 1 THEN DMul(a, DPow(a, n - 1))
        ELSE Let(DPow(a, n \div 2), LAMBDA h : DMul(h, h)))

-----------------------------------------------------------------------------
(* Values that are not numbers. *)

\* the exception raised by a float division by zero
ZeroDivisionError == [exc |-> "ZeroDivisionError"]

\* Python's None
None == [none |-> TRUE]

\* a local variable or result that has not been assigned yet
Unset == [unset |-> TRUE]

\* an int held in an Optional[int]
IntVal(n) == [int |-> n]

-----------------------------------------------------------------------------
(* The monthly growth factors whose twelfth powers are the annual growth   *)
(* factors of the model: 1/2, 1, 3/2 and 2.                                *)

MonthlyFactors == {Dy(1, -1), One, Dy(3, -1), Dy(2, 0)}

\* x ** (1/12)
Root12(y) == Let(y, LAMBDA x : CHOOSE g \in MonthlyFactors : DPow(g, 12) = x)

\* the annual rates r with (1 + r) ** (1/12) in MonthlyFactors
AnnualRates == {DSub(DPow(g, 12), One) : g \in MonthlyFactors}

InDomain(r) == r \in AnnualRates

-----------------------------------------------------------------------------
(* src/src/calculator.py: valuation primitives *)

\* monthly_rate = (1 + rate) ** (1/12) - 1
MonthlyRate(rate) == DSub(Root12(DAdd(One, rate)), One)

\* monthly_contribution * (((1 + monthly_rate) ** months - 1) / monthly_rate);
\* the float division raises ZeroDivisionError when monthly_rate is 0.0
FvAnnuity(monthly_contribution, rate, months) ==
    Let(rate, LAMBDA monthly_rate :
        IF monthly_rate = Zero THEN ZeroDivisionError
        ELSE DMul(monthly_contribution,
                  DDiv(DSub(DPow(DAdd(One, monthly_rate), months), One), monthly_rate)))

\* fv_lump + fv_annuity, unless computing fv_annuity raised
AddAnnuity(fv_lump, annuity) ==
    Let(annuity, LAMBDA fv_annuity :
        IF fv_annuity = ZeroDivisionError THEN ZeroDivisionError
        ELSE DAdd(fv_lump, fv_annuity))

\* calculate_keren_fv with the annuity computed whenever there is a monthly
\* contribution, also over zero years
calculate_keren_fv_any_years(principal, net_return, years, monthly_contribution) ==
    AddAnnuity(DMul(principal, DPow(DAdd(One, net_return), years)),
               IF DGt(monthly_contribution, Zero)
               THEN FvAnnuity(monthly_contribution, MonthlyRate(net_return), years * 12)
               ELSE Zero)

calculate_keren_fv(principal, net_return, years, monthly_contribution) ==
    AddAnnuity(DMul(principal, DPow(DAdd(One, net_return), years)),
               IF DGt(monthly_contribution, Zero) /\ years > 0
               THEN FvAnnuity(monthly_contribution, MonthlyRate(net_return), years * 12)
               ELSE Zero)

calculate_personal_fv_pretax(principal, return_rate, years, monthly_contribution) ==
    AddAnnuity(DMul(principal, DPow(DAdd(One, return_rate), years)),
               IF DGt(monthly_contribution, Zero) /\ years > 0
               THEN FvAnnuity(monthly_contribution, MonthlyRate(return_rate), years * 12)
               ELSE Zero)

\* AfterTax with the tax taken on the whole value, not on the gain
AfterTaxOnValue(basis, fv_pretax, tax_rate) == DMul(fv_pretax, DSub(One, tax_rate))

\* basis + gain * (1 - tax_rate) with gain = fv_pretax - basis
AfterTax(basis, fv_pretax, tax_rate) ==
    Let(basis, LAMBDA b : DAdd(b, DMul(DSub(fv_pretax, b), DSub(One, tax_rate))))

\* MonthsGrowth without the month of the contribution itself
MonthsGrowthOffByOne(years, month) == years * 12 - month

\* months_growth = years * 12 - month + 1
MonthsGrowth(years, month) == years * 12 - month + 1

\* contribution_after_tax, the body of the loop over the monthly contributions
ContributionAfterTax(monthly_contribution, monthly_rate, months_growth, tax_rate) ==
    AfterTax(monthly_contribution,
             DMul(monthly_contribution, DPow(DAdd(One, monthly_rate), months_growth)),
             tax_rate)

\* fv_contributions after the iterations month = lo..hi of
\*   for month in range(1, years * 12 + 1): fv_contributions += contribution_after_tax
\* (the sum is exact, so it is accumulated by halves to keep the evaluation shallow)
RECURSIVE ContributionsLoop(_, _, _, _, _, _)
ContributionsLoop(lo, hi, years, monthly_rate, tax_rate, monthly_contribution) ==
    IF lo > hi THEN Zero
    ELSE IF lo = hi
         THEN ContributionAfterTax(monthly_contribution, monthly_rate,
                                   MonthsGrowth(years, lo), tax_rate)
    ELSE DAdd(ContributionsLoop(lo, (lo + hi) \div 2, years, monthly_rate, tax_rate,
                                monthly_contribution),
              ContributionsLoop((lo + hi) \div 2 + 1, hi, years, monthly_rate,
                                tax_rate, monthly_contribution))

\* lines 105-111
LumpAfterTax(principal, return_rate, years, tax_rate) ==
    IF DGt(principal, Zero)
    THEN AfterTax(principal, DMul(principal, DPow(DAdd(One, return_rate), years)), tax_rate)
    ELSE Zero

\* lines 113-127
ContributionsAfterTax(return_rate, years, tax_rate, monthly_contribution) ==
    IF DGt(monthly_contribution, Zero) /\ years > 0
    THEN Let(MonthlyRate(return_rate), LAMBDA monthly_rate :
             ContributionsLoop(1, years * 12, years, monthly_rate, tax_rate,
                               monthly_contribution))
    ELSE Zero

calculate_personal_fv_aftertax(principal, return_rate, years, tax_rate, monthly_contribution) ==
    DAdd(LumpAfterTax(principal, return_rate, years, tax_rate),
         ContributionsAfterTax(return_rate, years, tax_rate, monthly_contribution))

-----------------------------------------------------------------------------
(* src/src/calculator.py: break-even search *)

\* lines 169-184: the value, `years_since_lockup` years after lockup, of the balance
\* withdrawn at lockup plus the contributions made since, after tax
PersonalFvAfterLockup(keren_at_lockup, personal_return, tax_rate, monthly_contribution, years_since_lockup) ==
    DAdd(AfterTax(keren_at_lockup,
                  calculate_personal_fv_pretax(keren_at_lockup, personal_return,
                                               years_since_lockup, Zero),
                  tax_rate),
         calculate_personal_fv_aftertax(Zero, personal_return, years_since_lockup,
                                        tax_rate, monthly_contribution))

\* lines 165-189: for year in range(keren_lockup_years + 1, max_years + 1), from `year` on
RECURSIVE BreakevenScan(_, _, _, _, _, _, _, _, _)
BreakevenScan(year, keren_at_lockup, principal, keren_net_return, personal_return, tax_rate, monthly_contribution, max_years, keren_lockup_years) ==
    IF year > max_years THEN None
    ELSE Let(calculate_keren_fv(principal, keren_net_return, year, monthly_contribution),
             LAMBDA keren_fv :
        IF keren_fv = ZeroDivisionError THEN ZeroDivisionError
        ELSE IF DGe(PersonalFvAfterLockup(keren_at_lockup, personal_return, tax_rate,
                                          monthly_contribution, year - keren_lockup_years),
                    keren_fv)
             THEN IntVal(year)
        ELSE BreakevenScan(year + 1, keren_at_lockup, principal, keren_net_return,
                           personal_return, tax_rate, monthly_contribution,
                           max_years, keren_lockup_years))

find_breakeven_year(principal, keren_net_return, personal_return, tax_rate, monthly_contribution, max_years, keren_lockup_years) ==
    Let(calculate_keren_fv(principal, keren_net_return, keren_lockup_years,
                           monthly_contribution),
        LAMBDA keren_at_lockup :
        IF keren_at_lockup = ZeroDivisionError THEN ZeroDivisionError
        ELSE BreakevenScan(keren_lockup_years + 1, keren_at_lockup, principal,
                           keren_net_return, personal_return, tax_rate,
                           monthly_contribution, max_years, keren_lockup_years))

-----------------------------------------------------------------------------
(* src/src/calculator.py: required return *)

\* float("inf")
Inf == [inf |-> TRUE]

\* the yearly growth factors 0, 1/2, 1, 3/2, ..., 17 among which the model takes
\* the years-th roots
YearlyFactors == {Dy(n, -1) : n \in 0..34}

HasRoot(x, years) == \E s \in YearlyFactors : DPow(s, years) = x

\* x ** (1 / years), for years >= 1 and an x whose root is a yearly factor
RootN(x, years) == CHOOSE s \in YearlyFactors : DPow(s, years) = x

\* RequiredNumerator without the tax taken off
RequiredNumeratorNoTax(keren_fv_factor, tax_rate) == keren_fv_factor

\* numerator = keren_fv_factor - tax_rate
RequiredNumerator(keren_fv_factor, tax_rate) == DSub(keren_fv_factor, tax_rate)

\* denominator = 1 - tax_rate
RequiredDenominator(tax_rate) == DSub(One, tax_rate)

\* IsUnreachable with < in place of <=
IsUnreachableStrict(numerator, denominator) == DLt(denominator, Zero) \/ DLt(numerator, Zero)

\* denominator <= 0 or numerator <= 0
IsUnreachable(numerator, denominator) == ~DGt(denominator, Zero) \/ ~DGt(numerator, Zero)

\* (numerator / denominator) ** (1 / years) - 1
RequiredRoot(numerator, denominator, years) ==
    IF denominator = Zero THEN ZeroDivisionError
    ELSE DSub(RootN(DDiv(numerator, denominator), years), One)

calculate_required_return(keren_net_return, tax_rate, years) ==
    Let2(RequiredNumerator(DPow(DAdd(One, keren_net_return), years), tax_rate),
         RequiredDenominator(tax_rate),
         LAMBDA numerator, denominator :
        IF IsUnreachable(numerator, denominator) THEN Inf
        ELSE RequiredRoot(numerator, denominator, years))

\* the arguments for which the model has the root the function takes
InRootDomain(keren_net_return, tax_rate, years) ==
    Let2(RequiredNumerator(DPow(DAdd(One, keren_net_return), years), tax_rate),
         RequiredDenominator(tax_rate),
         LAMBDA numerator, denominator :
        \/ IsUnreachable(numerator, denominator)
        \/ denominator = Zero
        \/ HasRoot(DDiv(numerator, denominator), years))

-----------------------------------------------------------------------------
(* src/src/calculator.py: sensitivity matrix *)

\* the integer a mantissa stands for
RECURSIVE NToInt(_)
NToInt(a) == IF a = <<>> THEN 0 ELSE a[1] + Base * NToInt(Tail(a))

\* the integer nearest to m / d, the even one of two equally near: the rounding
\* of a format specification such as .0f
RoundQuotient(m, d) ==
    IF 2 * (m % d) > d \/ (2 * (m % d) = d /\ (m \div d) % 2 = 1)
    THEN m \div d + 1
    ELSE m \div d

\* x >= 0 rounded to an integer as format(x, ".0f") rounds it
RoundHalfEven(y) ==
    Let(y, LAMBDA x :
        IF x = Zero THEN 0
        ELSE IF x.e >= 0 THEN NToInt(x.m) * 2^(x.e)
        ELSE RoundQuotient(NToInt(x.m), 2^(-x.e)))

\* f"{pr*100:.1f}%", held as the number of tenths of a percent
PersonalReturnLabel(pr) == [personal_return_tenths |-> RoundHalfEven(DMul(DMul(pr, Dy(100, 0)), Dy(10, 0)))]

\* f"Tax {tr*100:.0f}%", held as the number of percent
TaxLabel(tr) == [tax_percent |-> RoundHalfEven(DMul(tr, Dy(100, 0)))]

\* the string ">50"
Gt50 == [str |-> ">50"]

\* be_year if be_year else ">50": None and 0 are falsy
SensitivityCell(be_year) == IF be_year = None \/ be_year = IntVal(0) THEN Gt50 ELSE be_year

\* the last position of tax_rates whose column has the label l: a later
\* assignment to row[label] replaces an earlier one
LastWithLabel(tax_rates, l) ==
    CHOOSE j \in DOMAIN tax_rates :
        /\ TaxLabel(tax_rates[j]) = l
        /\ \A k \in DOMAIN tax_rates : TaxLabel(tax_rates[k]) = l => k <= j

\* the break-even years of the pairs (pr, tax_rates[1..j]), in order
RECURSIVE BreakevenRow(_, _, _, _, _, _, _, _)
BreakevenRow(j, principal, keren_net_return, pr, tax_rates, monthly_contribution, max_years, keren_lockup_years) ==
    IF j = 0 THEN <<>>
    ELSE Append(BreakevenRow(j - 1, principal, keren_net_return, pr, tax_rates,
                             monthly_contribution, max_years, keren_lockup_years),
                find_breakeven_year(principal, keren_net_return, pr, tax_rates[j],
                                    monthly_contribution, max_years, keren_lockup_years))

\* the row of the frame for pr: its index label and its cells by column label,
\* from the break-even years be_years[j] of its pairs
SensitivityRow(pr, tax_rates, be_years) ==
    [label |-> PersonalReturnLabel(pr),
     cells |-> [l \in {TaxLabel(tax_rates[j]) : j \in DOMAIN tax_rates} |->
                   SensitivityCell(be_years[LastWithLabel(tax_rates, l)])]]

\* pd.DataFrame(data), held as the rows in order
DataFrame(data) == [data |-> data]

\* the frame of the rows for personal_returns[1..i], unless a search raised
RECURSIVE SensitivityRows(_, _, _, _, _, _, _, _)
SensitivityRows(i, principal, keren_net_return, personal_returns, tax_rates, monthly_contribution, max_years, keren_lockup_years) ==
    IF i = 0 THEN DataFrame(<<>>)
    ELSE Let2(SensitivityRows(i - 1, principal, keren_net_return, personal_returns,
                              tax_rates, monthly_contribution, max_years,
                              keren_lockup_years),
              BreakevenRow(Len(tax_rates), principal, keren_net_return,
                           personal_returns[i], tax_rates, monthly_contribution,
                           max_years, keren_lockup_years),
              LAMBDA df, be_years :
        IF df = ZeroDivisionError THEN ZeroDivisionError
        ELSE IF \E j \in DOMAIN be_years : be_years[j] = ZeroDivisionError
             THEN ZeroDivisionError
        ELSE DataFrame(Append(df.data, SensitivityRow(personal_returns[i], tax_rates, be_years))))

generate_sensitivity_matrix(principal, keren_net_return, personal_returns, tax_rates, monthly_contribution, max_years, keren_lockup_years) ==
    SensitivityRows(Len(personal_returns), principal, keren_net_return, personal_returns, tax_rates, monthly_contribution, max_years, keren_lockup_years)

-----------------------------------------------------------------------------
(* src/src/presentation/charts.py: create_sensitivity_heatmap *)

\* the search ceiling: the literal 50 of lines 180, 182 and 199
HeatmapCeiling == 50

\* line 182: be_year if be_year else 50; None and 0 are falsy
HeatmapValue(be_year) ==
    IF be_year = None \/ be_year = IntVal(0) THEN HeatmapCeiling ELSE be_year.int

\* line 199: str(val) if val < 50 else ">50"
AnnotationText(val) == IF val < HeatmapCeiling THEN ToString(val) ELSE ">50"

\* lines 178-182: the row of the matrix for the break-even years be_years[1..j]
RECURSIVE HeatmapRow(_, _)
HeatmapRow(j, be_years) ==
    IF j = 0 THEN <<>>
    ELSE Append(HeatmapRow(j - 1, be_years), HeatmapValue(be_years[j]))

\* lines 196-199: the annotation texts of the row of values row[1..j]
RECURSIVE AnnotationRow(_, _)
AnnotationRow(j, row) ==
    IF j = 0 THEN <<>>
    ELSE Append(AnnotationRow(j - 1, row), AnnotationText(row[j]))

\* the figure: the matrix of the heatmap and its annotation texts, row by row
Figure(matrix, annotations) == [z |-> matrix, annotations |-> annotations]

\* lines 176-208: the figure of the rows for personal_returns[1..i], unless a
\* search raised
RECURSIVE HeatmapRows(_, _, _, _, _, _, _)
HeatmapRows(i, principal, keren_net_return, monthly_contribution, personal_returns, tax_rates, keren_lockup_years) ==
    IF i = 0 THEN Figure(<<>>, <<>>)
    ELSE Let2(HeatmapRows(i - 1, principal, keren_net_return, monthly_contribution,
                          personal_returns, tax_rates, keren_lockup_years),
              BreakevenRow(Len(tax_rates), principal, keren_net_return,
                           personal_returns[i], tax_rates, monthly_contribution,
                           HeatmapCeiling, keren_lockup_years),
              LAMBDA fig, be_years :
        IF fig = ZeroDivisionError THEN ZeroDivisionError
        ELSE IF \E j \in DOMAIN be_years : be_years[j] = ZeroDivisionError
             THEN ZeroDivisionError
        ELSE Let(HeatmapRow(Len(be_years), be_years), LAMBDA row :
                 Figure(Append(fig.z, row),
                        Append(fig.annotations, AnnotationRow(Len(row), row)))))

create_sensitivity_heatmap(principal, keren_net_return, monthly_contribution, personal_returns, tax_rates, keren_lockup_years) ==
    HeatmapRows(Len(personal_returns), principal, keren_net_return, monthly_contribution, personal_returns, tax_rates, keren_lockup_years)

-----------------------------------------------------------------------------
(* src/src/models.py: InvestmentInputs *)

\* get_keren_net_return with the fee taken off whatever the flag says
get_keren_net_return_less_fee(self) ==
    DSub(DMul(DAdd(One, self.keren_gross_return), DSub(One, self.keren_mgmt_fee)), One)

get_keren_net_return(self) ==
    IF self.keren_return_is_net THEN self.keren_gross_return
    ELSE DSub(DMul(DAdd(One, self.keren_gross_return),
                   DSub(One, self.keren_mgmt_fee)), One)

get_personal_effective_return(self) ==
    IF self.include_tax_drag THEN DSub(self.personal_return, self.annual_tax_drag)
    ELSE self.personal_return

-----------------------------------------------------------------------------
(* src/src/models.py: YearlyResult and ComparisonResult *)

\* the float x / y for y # 0, which need not be dyadic: kept as the fraction
\* num / den with den > 0
Fraction(x, y) ==
    IF y.neg THEN [num |-> DNeg(x), den |-> DNeg(y)] ELSE [num |-> x, den |-> y]

\* q * x for a fraction q
FractionTimes(q, x) == [num |-> DMul(q.num, x), den |-> q.den]

\* the fractions p and q are the same number
SameFraction(p, q) == DMul(p.num, q.den) = DMul(q.num, p.den)

\* YearlyResult.difference with the operands exchanged
difference_fund_minus_personal(self) == DSub(self.keren_fv, self.personal_fv_aftertax)

\* YearlyResult.difference
difference(self) == DSub(self.personal_fv_aftertax, self.keren_fv)

\* YearlyResult.difference_pct
difference_pct(self) ==
    IF self.keren_fv = Zero THEN Fraction(Zero, One)
    ELSE FractionTimes(Fraction(DSub(self.personal_fv_aftertax, self.keren_fv), self.keren_fv),
                       Dy(100, 0))

\* ComparisonResult.final_keren_fv
final_keren_fv(self) ==
    IF self.yearly_results = <<>> THEN self.inputs.principal
    ELSE self.yearly_results[Len(self.yearly_results)].keren_fv

\* ComparisonResult.final_personal_fv
final_personal_fv(self) ==
    IF self.yearly_results = <<>> THEN self.inputs.principal
    ELSE self.yearly_results[Len(self.yearly_results)].personal_fv_aftertax

\* ComparisonResult.final_difference
final_difference(self) == DSub(final_personal_fv(self), final_keren_fv(self))

\* winner_at_horizon with a final difference of 0 counted for the personal path
winner_at_horizon_no_tie(self) ==
    IF DGe(final_difference(self), Zero) THEN "Personal Investment" ELSE "Keren Hishtalmut"

\* ComparisonResult.winner_at_horizon
winner_at_horizon(self) ==
    Let(final_difference(self), LAMBDA d :
        IF DGt(d, Zero) THEN "Personal Investment"
        ELSE IF DLt(d, Zero) THEN "Keren Hishtalmut"
        ELSE "Tie")

-----------------------------------------------------------------------------
(* src/src/calculator.py: generate_comparison_dataframe *)

\* the row of the frame for the yearly result yr
ComparisonRow(yr) ==
    ("Year" :> yr.year) @@ ("Keren Hishtalmut" :> yr.keren_fv)
    @@ ("Personal (Before Tax)" :> yr.personal_fv_pretax)
    @@ ("Personal (After Tax)" :> yr.personal_fv_aftertax)
    @@ ("Difference" :> difference(yr)) @@ ("Difference %" :> difference_pct(yr))
    @@ ("Winner" :> IF yr.keren_wins THEN "Keren" ELSE "Personal")

generate_comparison_dataframe(res) ==
    [data |-> [i \in DOMAIN res.yearly_results |-> ComparisonRow(res.yearly_results[i])]]

-----------------------------------------------------------------------------
(* Bounds of the model *)

\* principal ranges over 0..MaxAmount
MaxAmount == 1
\* horizon_years ranges over 1..MaxHorizon
MaxHorizon == 3
\* keren_lockup_years ranges over 1..MaxLockup
MaxLockup == 2
\* the years argument of a valuation primitive ranges over 0..MaxYears
MaxYears == 3

Principals == {Dy(n, 0) : n \in 0..MaxAmount}

\* no monthly contribution, or one as large as a principal of 1
Contributions == {Zero, One}

\* the stated returns, which the sliders keep non-negative: 0, (3/2)^12 - 1, 2^12 - 1
StatedReturns == {r \in AnnualRates : ~r.neg}

\* 0 and 127/128
TaxRates == {Zero, Dy(127, -7)}

\* 0 and 4095/4096
MgmtFees == {Zero, Dy(4095, -12)}

\* 0 and 4095
TaxDrags == {Zero, Dy(4095, 0)}

InvestmentInputs ==
    [principal : Principals,
     monthly_contribution : Contributions,
     keren_gross_return : StatedReturns,
     keren_mgmt_fee : MgmtFees,
     keren_return_is_net : BOOLEAN,
     personal_return : StatedReturns,
     capital_gains_tax : TaxRates,
     annual_tax_drag : TaxDrags,
     include_tax_drag : BOOLEAN,
     horizon_years : 1..MaxHorizon,
     keren_lockup_years : 1..MaxLockup]

-----------------------------------------------------------------------------
(* src/src/calculator.py: run_comparison, one action per step *)

VARIABLES
    inputs,                     \* the InvestmentInputs record passed in
    pc,                         \* "call", "loop", "returned" or "raised"
    keren_net_return,           \* locals of run_comparison
    personal_effective_return,
    keren_at_lockup,
    year,                       \* the next value of the loop variable
    yearly_results,
    breakeven_year,
    result,                     \* the ComparisonResult returned
    found,                      \* what find_breakeven_year gave for the same inputs
    call                        \* a call made on its own or on the result, with its value

vars == <<inputs, pc, keren_net_return, personal_effective_return, keren_at_lockup, year, yearly_results, breakeven_year, result, found, call>>

Init ==
    /\ inputs \in InvestmentInputs
    /\ InDomain(get_keren_net_return(inputs))
    /\ InDomain(get_personal_effective_return(inputs))
    /\ pc = "call"
    /\ keren_net_return = Unset
    /\ personal_effective_return = Unset
    /\ keren_at_lockup = Unset
    /\ year = 0
    /\ yearly_results = <<>>
    /\ breakeven_year = Unset
    /\ result = Unset
    /\ found = Unset
    /\ call = Unset

\* Enter, writing the net return it derived back into the record it was given
EnterWritingBack ==
    /\ pc = "call"
    /\ keren_net_return' = get_keren_net_return(inputs)
    /\ personal_effective_return' = get_personal_effective_return(inputs)
    /\ yearly_results' = <<>>
    /\ breakeven_year' = None
    /\ keren_at_lockup' =
           calculate_keren_fv(inputs.principal, keren_net_return',
                              inputs.keren_lockup_years, inputs.monthly_contribution)
    /\ IF keren_at_lockup' = ZeroDivisionError
       THEN pc' = "raised" /\ year' = year
       ELSE pc' = "loop" /\ year' = 1
    /\ inputs' = [inputs EXCEPT !.keren_gross_return = keren_net_return',
                                !.keren_return_is_net = TRUE]
    /\ UNCHANGED <<result, found, call>>

\* lines 232-242: the derived returns and the fund value at lockup
Enter ==
    /\ pc = "call"
    /\ keren_net_return' = get_keren_net_return(inputs)
    /\ personal_effective_return' = get_personal_effective_return(inputs)
    /\ yearly_results' = <<>>
    /\ breakeven_year' = None
    /\ keren_at_lockup' =
           calculate_keren_fv(inputs.principal, keren_net_return',
                              inputs.keren_lockup_years, inputs.monthly_contribution)
    /\ IF keren_at_lockup' = ZeroDivisionError
       THEN pc' = "raised" /\ year' = year
       ELSE pc' = "loop" /\ year' = 1
    /\ UNCHANGED <<inputs, result, found, call>>

\* PersonalAfterLockup with the withdrawn balance taxed on its gain over the
\* principal, not over the balance withdrawn at lockup
PersonalAfterLockupBasisPrincipal(y) ==
    Let2(calculate_personal_fv_pretax(keren_at_lockup, personal_effective_return,
             y - inputs.keren_lockup_years, Zero),
         calculate_personal_fv_pretax(Zero, personal_effective_return,
             y - inputs.keren_lockup_years, inputs.monthly_contribution),
         LAMBDA lump_sum_pretax, contributions_pretax :
        IF contributions_pretax = ZeroDivisionError THEN ZeroDivisionError
        ELSE [pretax   |-> DAdd(lump_sum_pretax, contributions_pretax),
              aftertax |->
                  DAdd(AfterTax(inputs.principal, lump_sum_pretax,
                                inputs.capital_gains_tax),
                       calculate_personal_fv_aftertax(
                           Zero, personal_effective_return,
                           y - inputs.keren_lockup_years, inputs.capital_gains_tax,
                           inputs.monthly_contribution))])

\* lines 257-283: the personal values of year y > lockup
PersonalAfterLockup(y) ==
    Let2(calculate_personal_fv_pretax(keren_at_lockup, personal_effective_return,
             y - inputs.keren_lockup_years, Zero),
         calculate_personal_fv_pretax(Zero, personal_effective_return,
             y - inputs.keren_lockup_years, inputs.monthly_contribution),
         LAMBDA lump_sum_pretax, contributions_pretax :
        IF contributions_pretax = ZeroDivisionError THEN ZeroDivisionError
        ELSE [pretax   |-> DAdd(lump_sum_pretax, contributions_pretax),
              aftertax |->
                  DAdd(AfterTax(keren_at_lockup, lump_sum_pretax,
                                inputs.capital_gains_tax),
                       calculate_personal_fv_aftertax(
                           Zero, personal_effective_return,
                           y - inputs.keren_lockup_years, inputs.capital_gains_tax,
                           inputs.monthly_contribution))])

\* PersonalValues, with the gain taxed while the money is still locked
PersonalValuesTaxedInLockup(y, keren_fv) ==
    IF y <= inputs.keren_lockup_years
    THEN [pretax |-> keren_fv,
          aftertax |-> AfterTax(inputs.principal, keren_fv, inputs.capital_gains_tax)]
    ELSE PersonalAfterLockup(y)

\* lines 250-283: the personal values of year y
PersonalValues(y, keren_fv) ==
    IF y <= inputs.keren_lockup_years
    THEN [pretax |-> keren_fv, aftertax |-> keren_fv]
    ELSE PersonalAfterLockup(y)

\* KerenWins with a tie counted for the fund
KerenWinsOnTie(keren_fv, personal_fv_aftertax) == DGe(keren_fv, personal_fv_aftertax)

\* line 286
KerenWins(keren_fv, personal_fv_aftertax) == DGt(keren_fv, personal_fv_aftertax)

\* TrackBreakeven without the test that no break-even year was recorded yet
TrackBreakevenLast(be, keren_wins, y, lockup) ==
    IF ~keren_wins /\ y > lockup THEN IntVal(y) ELSE be

\* lines 298-304
TrackBreakeven(be, keren_wins, y, lockup) ==
    IF be = None /\ ~keren_wins /\ y > lockup THEN IntVal(y) ELSE be

\* InRange for range(1, horizon_years)
InRangeShort(y, horizon_years) == 1 <= y /\ y < horizon_years

\* line 244: year is in range(1, horizon_years + 1)
InRange(y, horizon_years) == 1 <= y /\ y < horizon_years + 1

\* lines 244-304: one iteration of the loop over the years
LoopBody ==
    /\ pc = "loop"
    /\ InRange(year, inputs.horizon_years)
    /\ \E keren_fv \in {calculate_keren_fv(inputs.principal, keren_net_return, year,
                                           inputs.monthly_contribution)} :
       \E personal \in {IF keren_fv = ZeroDivisionError THEN ZeroDivisionError
                        ELSE PersonalValues(year, keren_fv)} :
         IF personal = ZeroDivisionError
         THEN /\ pc' = "raised"
              /\ UNCHANGED <<year, yearly_results, breakeven_year>>
         ELSE \E keren_wins \in {KerenWins(keren_fv, personal.aftertax)} :
              /\ yearly_results' =
                     Append(yearly_results,
                            [year |-> year,
                             keren_fv |-> keren_fv,
                             personal_fv_pretax |-> personal.pretax,
                             personal_fv_aftertax |-> personal.aftertax,
                             keren_wins |-> keren_wins])
              /\ breakeven_year' =
                     TrackBreakeven(breakeven_year, keren_wins, year,
                                    inputs.keren_lockup_years)
              /\ year' = year + 1
              /\ pc' = pc
    /\ UNCHANGED <<inputs, keren_net_return, personal_effective_return,
                   keren_at_lockup, result, found, call>>

\* Return, reporting no break-even year when it is the last year of the horizon
ReturnBreakevenBeforeHorizon ==
    /\ pc = "loop"
    /\ ~InRange(year, inputs.horizon_years)
    /\ result' = [inputs |-> inputs,
                  yearly_results |-> yearly_results,
                  breakeven_year |-> IF breakeven_year = IntVal(inputs.horizon_years)
                                     THEN None ELSE breakeven_year,
                  keren_net_return |-> keren_net_return,
                  personal_effective_return |-> personal_effective_return]
    /\ pc' = "returned"
    /\ UNCHANGED <<inputs, keren_net_return, personal_effective_return,
                   keren_at_lockup, year, yearly_results, breakeven_year, found, call>>

\* lines 306-312
Return ==
    /\ pc = "loop"
    /\ ~InRange(year, inputs.horizon_years)
    /\ result' = [inputs |-> inputs,
                  yearly_results |-> yearly_results,
                  breakeven_year |-> breakeven_year,
                  keren_net_return |-> keren_net_return,
                  personal_effective_return |-> personal_effective_return]
    /\ pc' = "returned"
    /\ UNCHANGED <<inputs, keren_net_return, personal_effective_return,
                   keren_at_lockup, year, yearly_results, breakeven_year, found, call>>

\* a caller searches the break-even year for the parameters of the run, up to
\* its horizon; the search and the display of the result are independent of
\* each other, and a run is followed by one of them
FindBreakeven ==
    /\ pc \in {"returned", "raised"}
    /\ found = Unset
    /\ call = Unset
    /\ found' = find_breakeven_year(
                    inputs.principal, get_keren_net_return(inputs),
                    get_personal_effective_return(inputs),
                    inputs.capital_gains_tax, inputs.monthly_contribution,
                    inputs.horizon_years, inputs.keren_lockup_years)
    /\ UNCHANGED <<inputs, pc, keren_net_return, personal_effective_return,
                   keren_at_lockup, year, yearly_results, breakeven_year, result, call>>

\* app.py lines 94-122: the page shows the winner at the horizon and the
\* comparison table of the result
ShowResult ==
    /\ pc = "returned"
    /\ call = Unset
    /\ found = Unset
    /\ call' = [fn |-> "show_result",
                winner |-> winner_at_horizon(result),
                df |-> generate_comparison_dataframe(result)]
    /\ UNCHANGED <<inputs, pc, keren_net_return, personal_effective_return,
                   keren_at_lockup, year, yearly_results, breakeven_year, result, found>>

Next == Enter \/ LoopBody \/ Return \/ FindBreakeven \/ ShowResult

Spec == Init /\ [][Next]_vars

-----------------------------------------------------------------------------
(* The valuation primitives called on their own *)

\* 0, 1/2 and 1
PrimitiveTaxRates == {Zero, Dy(1, -1), One}

InitFn ==
    /\ inputs = Unset
    /\ pc = "idle"
    /\ keren_net_return = Unset
    /\ personal_effective_return = Unset
    /\ keren_at_lockup = Unset
    /\ year = 0
    /\ yearly_results = <<>>
    /\ breakeven_year = Unset
    /\ result = Unset
    /\ found = Unset
    /\ call = Unset

Idle == UNCHANGED <<inputs, pc, keren_net_return, personal_effective_return, keren_at_lockup, year, yearly_results, breakeven_year, result, found>>

CallKerenFv ==
    /\ call = Unset
    /\ \E principal \in Principals, net_return \in AnnualRates, years \in 0..MaxYears, monthly_contribution \in Contributions :
         call' = [fn |-> "calculate_keren_fv",
                  principal |-> principal,
                  rate |-> net_return,
                  years |-> years,
                  monthly_contribution |-> monthly_contribution,
                  value |-> calculate_keren_fv(principal, net_return, years,
                                               monthly_contribution)]
    /\ Idle

CallPersonalFvPretax ==
    /\ call = Unset
    /\ \E principal \in Principals, return_rate \in AnnualRates, years \in 0..MaxYears, monthly_contribution \in Contributions :
         call' = [fn |-> "calculate_personal_fv_pretax",
                  principal |-> principal,
                  rate |-> return_rate,
                  years |-> years,
                  monthly_contribution |-> monthly_contribution,
                  value |-> calculate_personal_fv_pretax(principal, return_rate, years,
                                                         monthly_contribution)]
    /\ Idle

CallPersonalFvAftertax ==
    /\ call = Unset
    /\ \E principal \in Principals, return_rate \in AnnualRates, years \in 0..MaxYears, tax_rate \in PrimitiveTaxRates, monthly_contribution \in Contributions :
         call' = [fn |-> "calculate_personal_fv_aftertax",
                  principal |-> principal,
                  rate |-> return_rate,
                  years |-> years,
                  tax_rate |-> tax_rate,
                  monthly_contribution |-> monthly_contribution,
                  value |-> calculate_personal_fv_aftertax(principal, return_rate, years,
                                                           tax_rate, monthly_contribution)]
    /\ Idle

\* fund returns -1/2, 0, 1 and 4
RequiredFundReturns == {Dy(-1, -1), Zero, One, Dy(4, 0)}

\* tax rates 0, 1/2, 3/4, 1 and 3/2
RequiredTaxRates == {Zero, Dy(1, -1), Dy(3, -2), One, Dy(3, -1)}

\* the callers pass the horizons 1, 2, ... (charts.py line 237, app.py line 186)
CallRequiredReturn ==
    /\ call = Unset
    /\ \E net_return \in RequiredFundReturns, tax_rate \in RequiredTaxRates, years \in 1..MaxYears :
         /\ InRootDomain(net_return, tax_rate, years)
         /\ call' = [fn |-> "calculate_required_return",
                     rate |-> net_return,
                     tax_rate |-> tax_rate,
                     years |-> years,
                     value |-> calculate_required_return(net_return, tax_rate, years)]
    /\ Idle

NextFn == CallKerenFv \/ CallPersonalFvPretax \/ CallPersonalFvAftertax \/ CallRequiredReturn

SpecFn == InitFn /\ [][NextFn]_vars

-----------------------------------------------------------------------------
(* The sensitivity matrix generated on its own *)

\* the lists of one or two elements of S
ShortLists(S) == {<<a>> : a \in S} \cup {<<a, b>> : a \in S, b \in S}

\* tax rates 0, 127/128 and 253/256; the last two print as "Tax 99%"
GridTaxRates == {Zero, Dy(127, -7), Dy(253, -8)}

\* personal returns (3/2)^12 - 1 and 2^12 - 1
GridPersonalReturns == {r \in StatedReturns : r # Zero}

\* a principal of 1 and a lockup of one year
CallSensitivityMatrix ==
    /\ call = Unset
    /\ \E net_return \in StatedReturns, monthly_contribution \in Contributions, lockup \in {1} :
       \E personal_returns \in ShortLists(GridPersonalReturns), tax_rates \in {<<>>} \cup ShortLists(GridTaxRates) :
         call' = [fn |-> "generate_sensitivity_matrix",
                  principal |-> One,
                  rate |-> net_return,
                  personal_returns |-> personal_returns,
                  tax_rates |-> tax_rates,
                  monthly_contribution |-> monthly_contribution,
                  max_years |-> MaxHorizon,
                  keren_lockup_years |-> lockup,
                  value |-> generate_sensitivity_matrix(
                                One, net_return, personal_returns, tax_rates,
                                monthly_contribution, MaxHorizon, lockup)]
    /\ Idle

NextGrid == CallSensitivityMatrix

SpecGrid == InitFn /\ [][NextGrid]_vars

-----------------------------------------------------------------------------
(* create_sensitivity_heatmap called on its own *)

\* fund returns 0 and 2^12 - 1: the fund value stays short over fifty years
HeatmapFundReturns == {Zero, Dy(4095, 0)}

\* a principal of 1, no monthly contribution, and a lockup that ends one or two
\* years before the ceiling
CallSensitivityHeatmap ==
    /\ call = Unset
    /\ \E net_return \in HeatmapFundReturns, monthly_contribution \in {Zero} :
       \E lockup \in {HeatmapCeiling - 2, HeatmapCeiling - 1} :
       \E personal_returns \in ShortLists(StatedReturns), tax_rates \in ShortLists(TaxRates) :
         call' = [fn |-> "create_sensitivity_heatmap",
                  principal |-> One,
                  rate |-> net_return,
                  monthly_contribution |-> monthly_contribution,
                  personal_returns |-> personal_returns,
                  tax_rates |-> tax_rates,
                  keren_lockup_years |-> lockup,
                  value |-> create_sensitivity_heatmap(
                                One, net_return, monthly_contribution,
                                personal_returns, tax_rates, lockup)]
    /\ Idle

NextHeatmap == CallSensitivityHeatmap

SpecHeatmap == InitFn /\ [][NextHeatmap]_vars

-----------------------------------------------------------------------------
(* run_comparison called again, by a rerun of the page, for a record that  *)
(* differs from the one of the finished run in its horizon only            *)

\* stated returns taken as net and no tax drag: the returns of the record are
\* the returns the run uses
InitPair ==
    /\ Init
    /\ inputs.keren_return_is_net
    /\ inputs.keren_mgmt_fee = Zero
    /\ ~inputs.include_tax_drag
    /\ inputs.annual_tax_drag = Zero

\* app.py line 58, executed once more: the finished run and its result are
\* kept in call, and run_comparison is entered with the longer horizon
RunAgain ==
    /\ pc = "returned"
    /\ call = Unset
    /\ \E horizon_years \in (inputs.horizon_years + 1)..MaxHorizon :
           inputs' = [inputs EXCEPT !.horizon_years = horizon_years]
    /\ call' = [fn |-> "run_comparison", inputs |-> inputs, value |-> result]
    /\ pc' = "call"
    /\ keren_net_return' = Unset
    /\ personal_effective_return' = Unset
    /\ keren_at_lockup' = Unset
    /\ year' = 0
    /\ yearly_results' = <<>>
    /\ breakeven_year' = Unset
    /\ result' = Unset
    /\ UNCHANGED found

NextPair == Enter \/ LoopBody \/ Return \/ RunAgain

SpecPair == InitPair /\ [][NextPair]_vars

-----------------------------------------------------------------------------
(* Properties *)

\* principal + monthly_contribution * 12 * years, the total amount paid in
PaidIn(principal, monthly_contribution, years) == DAdd(principal, DMul(monthly_contribution, Dy(12 * years, 0)))

\* the least element of a non-empty set of integers
Least(S) == CHOOSE y \in S : \A z \in S : y <= z

\* the years after lockup of a series in which the personal post-tax value is
\* at least the fund value
BreakevenYears(series, lockup) ==
    {series[i].year : i \in {j \in DOMAIN series :
        series[j].year > lockup
        /\ DGe(series[j].personal_fv_aftertax, series[j].keren_fv)}}

\* the first of them, or None
FirstBreakevenYear(series, lockup) ==
    LET S == BreakevenYears(series, lockup)
    IN  IF S = {} THEN None ELSE IntVal(Least(S))

\* the first year after lockup of a series whose fund-wins flag is false, or None
FirstYearFundLoses(series, lockup) ==
    LET S == {series[i].year : i \in {j \in DOMAIN series :
                  series[j].year > lockup /\ ~series[j].keren_wins}}
    IN  IF S = {} THEN None ELSE IntVal(Least(S))

\* C1: in the series run_comparison returns, every year y with 1 <= y <= lockup
\* has personal pre-tax value = personal post-tax value = fund value, exactly.
C1_LockupInvariant ==
    pc = "returned" =>
        \A i \in DOMAIN result.yearly_results :
            result.yearly_results[i].year <= inputs.keren_lockup_years =>
                /\ result.yearly_results[i].personal_fv_pretax
                       = result.yearly_results[i].keren_fv
                /\ result.yearly_results[i].personal_fv_aftertax
                       = result.yearly_results[i].keren_fv

\* a run with contributions, a tax and a growing fund returned a series that
\* covers two locked years and a year after them
C1_Witness ==
    /\ pc = "returned"
    /\ inputs.keren_lockup_years = 2
    /\ Len(result.yearly_results) > 2
    /\ inputs.monthly_contribution # Zero
    /\ inputs.principal # Zero
    /\ inputs.capital_gains_tax # Zero
    /\ DGt(result.yearly_results[2].keren_fv, PaidIn(inputs.principal, inputs.monthly_contribution, 2))

\* C2: the break-even year is the first year after lockup, up to the horizon,
\* whose personal post-tax value is >= the fund value (a tie counts); once set
\* in the loop it is the first such year of the years computed so far, whatever
\* later years bring; it is None exactly when the fund strictly wins in every
\* year after lockup.
C2_BreakevenIsFirst ==
    /\ pc = "loop" =>
           breakeven_year = FirstBreakevenYear(yearly_results, inputs.keren_lockup_years)
    /\ pc = "returned" =>
           result.breakeven_year
               = FirstBreakevenYear(result.yearly_results, inputs.keren_lockup_years)

\* a returned run whose break-even year is not the first year after lockup:
\* the fund won strictly in a year after lockup, then the personal path caught up
C2_Witness ==
    /\ pc = "returned"
    /\ result.breakeven_year # None
    /\ result.breakeven_year.int > inputs.keren_lockup_years + 1

\* C3: a break-even year, when present, lies in lockup+1..horizon for
\* run_comparison and in lockup+1..max_years for find_breakeven_year, and
\* find_breakeven_year returns None whenever max_years <= lockup
\* (the search below is made with max_years = horizon_years).
C3_BreakevenRange ==
    /\ (pc = "returned" /\ result.breakeven_year # None) =>
           /\ result.breakeven_year.int > inputs.keren_lockup_years
           /\ result.breakeven_year.int <= inputs.horizon_years
    /\ (found # Unset /\ found # None /\ found # ZeroDivisionError) =>
           /\ found.int > inputs.keren_lockup_years
           /\ found.int <= inputs.horizon_years
    /\ (found # Unset /\ inputs.horizon_years <= inputs.keren_lockup_years) =>
           found = None

\* C4: find_breakeven_year, called with the parameters of a run and
\* max_years = horizon, gives what the run's series gives: the first year after
\* lockup whose fund-wins flag is false, or None (or both raise).
C4_SearchAgreesWithRun ==
    found # Unset =>
        \/ pc = "raised" /\ found = ZeroDivisionError
        \/ /\ pc = "returned"
           /\ found = FirstYearFundLoses(result.yearly_results, inputs.keren_lockup_years)

\* C5: calculate_personal_fv_aftertax with tax_rate = 0 returns what
\* calculate_personal_fv_pretax returns for the same principal, rate, years and
\* monthly contribution.
C5_ZeroTaxIsPretax ==
    (call # Unset /\ call.fn = "calculate_personal_fv_aftertax" /\ call.tax_rate = Zero) =>
        call.value = calculate_personal_fv_pretax(call.principal, call.rate, call.years, call.monthly_contribution)

\* C6: with an annual return of 0 (monthly rate exactly zero), a monthly
\* contribution > 0 and years > 0, calculate_keren_fv and
\* calculate_personal_fv_pretax do not divide by zero and return
\* principal + monthly_contribution * (12 * years).
C6_ZeroRateIsLinear ==
    (/\ call # Unset
     /\ call.fn \in {"calculate_keren_fv", "calculate_personal_fv_pretax"}
     /\ call.rate = Zero
     /\ call.monthly_contribution # Zero
     /\ call.years > 0) =>
        /\ call.value # ZeroDivisionError
        /\ call.value = PaidIn(call.principal, call.monthly_contribution, call.years)

\* x <= n / d
AtMost(x, n, d) == DGe(Dy(n, 0), DMul(x, Dy(d, 0)))

\* the ranges of the controls of render_sidebar_inputs
Validated(i) ==
    /\ ~i.principal.neg /\ AtMost(i.principal, 10000000, 1)
    /\ ~i.monthly_contribution.neg /\ AtMost(i.monthly_contribution, 50000, 1)
    /\ ~i.keren_gross_return.neg /\ AtMost(i.keren_gross_return, 15, 100)
    /\ ~i.keren_mgmt_fee.neg /\ AtMost(i.keren_mgmt_fee, 2, 100)
    /\ ~i.personal_return.neg /\ AtMost(i.personal_return, 20, 100)
    /\ ~i.capital_gains_tax.neg /\ AtMost(i.capital_gains_tax, 50, 100)
    /\ ~i.annual_tax_drag.neg /\ AtMost(i.annual_tax_drag, 2, 100)
    /\ (~i.include_tax_drag => i.annual_tax_drag = Zero)
    /\ i.horizon_years >= 1 /\ i.horizon_years <= 40
    /\ i.keren_lockup_years >= 1 /\ i.keren_lockup_years <= 10

\* C7: for every validated input record run_comparison raises no exception.
C7_NoException == Validated(inputs) => pc # "raised"

\* C8: the series run_comparison returns has exactly horizon entries, and the
\* entry at position i has year index i.
C8_SeriesIsYears ==
    pc = "returned" =>
        /\ Len(result.yearly_results) = inputs.horizon_years
        /\ \A i \in 1..Len(result.yearly_results) : result.yearly_results[i].year = i

\* a run over a horizon of three years or more returned
C8_Witness == pc = "returned" /\ inputs.horizon_years >= 3 /\ Len(result.yearly_results) >= 3

\* C9: calculate_personal_fv_aftertax with tax_rate = 1 returns exactly
\* principal + monthly_contribution * 12 * years.
C9_FullTaxKeepsNoGain ==
    (call # Unset /\ call.fn = "calculate_personal_fv_aftertax" /\ call.tax_rate = One) =>
        call.value = PaidIn(call.principal, call.monthly_contribution, call.years)

\* a call with tax_rate = 1 on a principal and contributions that gained
C9_Witness ==
    /\ call # Unset
    /\ call.fn = "calculate_personal_fv_aftertax"
    /\ call.tax_rate = One
    /\ call.principal # Zero
    /\ call.monthly_contribution # Zero
    /\ call.years >= 2
    /\ DGt(call.rate, Zero)

\* m + (m * (1 + i)^j - m) * (1 - tax), the after-tax value of one contribution
\* that compounded for j months
TaxedContribution(m, i, j, tax) ==
    DAdd(m, DMul(DSub(DMul(m, DPow(DAdd(One, i), j)), m), DSub(One, tax)))

\* the sum of TaxedContribution over the growth periods j = lo..hi
RECURSIVE TaxedContributions(_, _, _, _, _)
TaxedContributions(lo, hi, m, i, tax) ==
    IF lo > hi THEN Zero
    ELSE IF lo = hi THEN TaxedContribution(m, i, lo, tax)
    ELSE DAdd(TaxedContributions(lo, (lo + hi) \div 2, m, i, tax),
              TaxedContributions((lo + hi) \div 2 + 1, hi, m, i, tax))

\* L = principal + (principal * (1 + r)^years - principal) * (1 - tax) if
\* principal > 0, else 0
TaxedLumpSum(principal, r, years, tax) ==
    IF DGt(principal, Zero)
    THEN DAdd(principal, DMul(DSub(DMul(principal, DPow(DAdd(One, r), years)), principal), DSub(One, tax)))
    ELSE Zero

\* C10: calculate_personal_fv_aftertax returns L + C, with L the taxed lump
\* sum and C the sum of the 12 * years taxed contributions, the first of which
\* compounds for 12 * years months and the last for one month (C = 0 when
\* years = 0 or the monthly contribution is 0).
C10_AftertaxIsLumpPlusLots ==
    (call # Unset /\ call.fn = "calculate_personal_fv_aftertax") =>
        /\ call.value =
               DAdd(TaxedLumpSum(call.principal, call.rate, call.years, call.tax_rate),
                    TaxedContributions(1, 12 * call.years, call.monthly_contribution,
                                       MonthlyRate(call.rate), call.tax_rate))
        /\ (call.years = 0 \/ call.monthly_contribution = Zero) =>
               call.value = TaxedLumpSum(call.principal, call.rate, call.years, call.tax_rate)

\* a call on a principal and contributions at a nonzero rate, half taxed, over
\* two years or more
C10_Witness ==
    /\ call # Unset
    /\ call.fn = "calculate_personal_fv_aftertax"
    /\ call.tax_rate = Dy(1, -1)
    /\ call.principal # Zero
    /\ call.monthly_contribution # Zero
    /\ call.years >= 2
    /\ call.rate # Zero

\* W, the fund value at the lockup year, from the inputs of the run
FundValueAtLockup(i) == calculate_keren_fv(i.principal, get_keren_net_return(i), i.keren_lockup_years, i.monthly_contribution)

\* W * (1 + r)^n
GrownLumpSum(W, r, n) == DMul(W, DPow(DAdd(One, r), n))

\* C11: for every year y > lockup of the series run_comparison returns, with W
\* the fund value at the lockup year, r the effective personal return and
\* n = y - lockup:
\*   personal post-tax(y) = W + (W*(1+r)^n - W)*(1-tax)
\*                          + calculate_personal_fv_aftertax(0, r, n, tax, m)
\*   personal pre-tax(y)  = W*(1+r)^n + calculate_personal_fv_pretax(0, r, n, m)
\* and the W the run computed once is that fund value (checked where the run
\* returns, before anything is done with the result).
C11_AfterLockupTwoFlows ==
    (pc = "returned" /\ found = Unset /\ call = Unset) =>
        /\ keren_at_lockup = FundValueAtLockup(inputs)
        /\ \A i \in DOMAIN result.yearly_results :
             result.yearly_results[i].year > inputs.keren_lockup_years =>
               \E W \in {FundValueAtLockup(inputs)} :
               \E r \in {get_personal_effective_return(inputs)} :
               \E n \in {result.yearly_results[i].year - inputs.keren_lockup_years} :
               \E grown \in {GrownLumpSum(W, r, n)} :
                 /\ result.yearly_results[i].personal_fv_aftertax =
                        DAdd(DAdd(W, DMul(DSub(grown, W), DSub(One, inputs.capital_gains_tax))),
                             calculate_personal_fv_aftertax(Zero, r, n, inputs.capital_gains_tax, inputs.monthly_contribution))
                 /\ result.yearly_results[i].personal_fv_pretax =
                        DAdd(grown, calculate_personal_fv_pretax(Zero, r, n, inputs.monthly_contribution))

\* a run with a principal, contributions, a tax and growth on both paths
\* returned a series with two years after a one-year lockup
C11_Witness ==
    /\ pc = "returned"
    /\ inputs.keren_lockup_years = 1
    /\ Len(result.yearly_results) = 3
    /\ inputs.principal # Zero
    /\ inputs.monthly_contribution # Zero
    /\ inputs.capital_gains_tax # Zero
    /\ DGt(result.personal_effective_return, Zero)
    /\ DGt(keren_at_lockup, inputs.principal)

\* C12: whenever calculate_required_return returns a finite r (years >= 1),
\*   (1 + fund_return)^years = tax + (1 - tax) * (1 + r)^years,
\* and so for every principal P > 0
\*   calculate_personal_fv_aftertax(P, r, years, tax, 0)
\*       = calculate_keren_fv(P, fund_return, years, 0).
C12_RequiredReturnRoundTrip ==
    (call # Unset /\ call.fn = "calculate_required_return" /\ call.value # Inf) =>
        /\ DPow(DAdd(One, call.rate), call.years) =
               DAdd(call.tax_rate,
                    DMul(DSub(One, call.tax_rate), DPow(DAdd(One, call.value), call.years)))
        /\ \A P \in Principals \ {Zero} :
               calculate_personal_fv_aftertax(P, call.value, call.years, call.tax_rate, Zero)
                   = calculate_keren_fv(P, call.rate, call.years, Zero)

\* the required return over two years at a fund return of 4 and a tax of 1/2
\* is 6: 25 = 1/2 + 1/2 * 49
C12_Witness ==
    /\ call # Unset
    /\ call.fn = "calculate_required_return"
    /\ call.years = 2
    /\ call.tax_rate = Dy(1, -1)
    /\ call.rate = Dy(4, 0)
    /\ call.value = Dy(6, 0)

\* C13: calculate_required_return returns the sentinel float("inf"), raising
\* nothing, exactly when 1 - tax_rate <= 0 or
\* (1 + keren_net_return)^years - tax_rate <= 0; in every other case it returns
\* the finite closed-form value, the r > -1 with
\* (1 + r)^years = ((1 + keren_net_return)^years - tax_rate) / (1 - tax_rate).
C13_SentinelExactly ==
    (call # Unset /\ call.fn = "calculate_required_return") =>
        \E unreachable \in {\/ DGe(Zero, DSub(One, call.tax_rate))
                            \/ DGe(Zero, DSub(DPow(DAdd(One, call.rate), call.years), call.tax_rate))} :
            /\ call.value # ZeroDivisionError
            /\ (call.value = Inf) <=> unreachable
            /\ ~unreachable =>
                   /\ DGt(DAdd(One, call.value), Zero)
                   /\ DPow(DAdd(One, call.value), call.years) =
                          DDiv(DSub(DPow(DAdd(One, call.rate), call.years), call.tax_rate),
                               DSub(One, call.tax_rate))

\* the sentinel came back for a tax rate below 1: the fund lost so much that
\* the numerator is negative
C13_Witness ==
    /\ call # Unset
    /\ call.fn = "calculate_required_return"
    /\ call.value = Inf
    /\ call.tax_rate = Dy(1, -1)
    /\ call.rate = Dy(-1, -1)

\* the number of cells of a frame: the cells of its rows, by column label
CellCount(df) == IF df.data = <<>> THEN 0 ELSE Len(df.data) * Cardinality(DOMAIN df.data[1].cells)

\* C14: for any lists personal_returns and tax_rates the frame
\* generate_sensitivity_matrix returns has exactly
\* len(personal_returns) * len(tax_rates) cells, one per pair; the cell of a
\* pair is an integer year in 1..max_years or the sentinel ">50", and it is the
\* sentinel exactly when find_breakeven_year returns None for the pair.
C14_GridCells ==
    (call # Unset /\ call.fn = "generate_sensitivity_matrix") =>
        /\ call.value # ZeroDivisionError
        /\ CellCount(call.value) = Len(call.personal_returns) * Len(call.tax_rates)
        /\ \A i \in DOMAIN call.personal_returns : \A j \in DOMAIN call.tax_rates :
             \E cell \in {call.value.data[i].cells[TaxLabel(call.tax_rates[j])]} :
             \E be \in {find_breakeven_year(call.principal, call.rate, call.personal_returns[i],
                                            call.tax_rates[j], call.monthly_contribution,
                                            call.max_years, call.keren_lockup_years)} :
               /\ cell = Gt50 \/ \E y \in 1..call.max_years : cell = IntVal(y)
               /\ (cell = Gt50) <=> (be = None)
               /\ cell # Gt50 => cell = be

\* the three valuation functions
ValuationFunctions == {"calculate_keren_fv", "calculate_personal_fv_pretax", "calculate_personal_fv_aftertax"}

\* C15: for principal >= 0, monthly contribution >= 0, return rate >= 0, tax
\* rate in [0, 1] and years >= 0, each of calculate_keren_fv,
\* calculate_personal_fv_pretax and calculate_personal_fv_aftertax returns a
\* value >= principal + monthly_contribution * 12 * years.
C15_AtLeastPaidIn ==
    (/\ call # Unset
     /\ call.fn \in ValuationFunctions
     /\ DGe(call.principal, Zero)
     /\ DGe(call.monthly_contribution, Zero)
     /\ DGe(call.rate, Zero)
     /\ call.years >= 0
     /\ call.fn = "calculate_personal_fv_aftertax" =>
            DGe(call.tax_rate, Zero) /\ DGe(One, call.tax_rate)) =>
        /\ call.value # ZeroDivisionError
        /\ DGe(call.value, PaidIn(call.principal, call.monthly_contribution, call.years))

\* C16: calculate_keren_fv returns exactly principal when years = 0, for any
\* net return and any monthly contribution, and exactly
\* principal * (1 + net_return)^years when monthly_contribution = 0, for any years.
C16_FundValueDegenerate ==
    (call # Unset /\ call.fn = "calculate_keren_fv") =>
        /\ call.years = 0 => call.value = call.principal
        /\ call.monthly_contribution = Zero =>
               call.value = DMul(call.principal, DPow(DAdd(One, call.rate), call.years))

\* a call over zero years with a principal, a monthly contribution and a net
\* return of 0, the return at which the annuity formula cannot be evaluated
C16_Witness ==
    /\ call # Unset
    /\ call.fn = "calculate_keren_fv"
    /\ call.years = 0
    /\ call.rate = Zero
    /\ call.monthly_contribution # Zero
    /\ call.principal # Zero
    /\ call.value = call.principal

\* C17, as stated: for every yearly result, difference = personal post-tax
\* value - fund value, and difference_pct = difference / fund value when the
\* fund value is nonzero and 0 when it is 0.
C17_DifferencePctIsRatio ==
    (pc = "returned" /\ call # Unset) =>
        \A i \in DOMAIN result.yearly_results :
            \E yr \in {result.yearly_results[i]} :
            \E row \in {call.df.data[i]} :
                /\ row["Difference"] = DSub(yr.personal_fv_aftertax, yr.keren_fv)
                /\ yr.keren_fv # Zero =>
                       SameFraction(row["Difference %"], Fraction(row["Difference"], yr.keren_fv))
                /\ yr.keren_fv = Zero =>
                       SameFraction(row["Difference %"], Fraction(Zero, One))

\* C17, amended: for every yearly result, difference = personal post-tax
\* value - fund value, and difference_pct = 100 * difference / fund value, a
\* percentage, when the fund value is nonzero and 0 when it is 0.
C17_DifferencePctIsPercent ==
    (pc = "returned" /\ call # Unset) =>
        \A i \in DOMAIN result.yearly_results :
            \E yr \in {result.yearly_results[i]} :
            \E row \in {call.df.data[i]} :
                /\ row["Difference"] = DSub(yr.personal_fv_aftertax, yr.keren_fv)
                /\ yr.keren_fv # Zero =>
                       SameFraction(row["Difference %"],
                                    Fraction(DMul(Dy(100, 0), row["Difference"]), yr.keren_fv))
                /\ yr.keren_fv = Zero =>
                       SameFraction(row["Difference %"], Fraction(Zero, One))

\* the table of a result was made whose last year has a fund value that is not
\* 0 and a personal post-tax value different from it
C17_Witness ==
    /\ pc = "returned"
    /\ call # Unset
    /\ call.df.data[Len(result.yearly_results)]["Difference"] # Zero
    /\ result.yearly_results[Len(result.yearly_results)].keren_fv # Zero
    /\ ~SameFraction(call.df.data[Len(result.yearly_results)]["Difference %"], Fraction(Zero, One))

\* C18: the winner label is "Personal Investment" when the last yearly
\* result's personal post-tax value exceeds its fund value, "Keren Hishtalmut"
\* when it is lower and "Tie" when they are equal; so the label is
\* "Keren Hishtalmut" exactly when the last year's keren_wins flag is true, the
\* flag of a year being true iff fund value > personal post-tax value, strictly.
C18_WinnerLabel ==
    (pc = "returned" /\ call # Unset) =>
        /\ \A i \in DOMAIN result.yearly_results :
               result.yearly_results[i].keren_wins
                   <=> DGt(result.yearly_results[i].keren_fv,
                           result.yearly_results[i].personal_fv_aftertax)
        /\ \E last \in {result.yearly_results[Len(result.yearly_results)]} :
               /\ (call.winner = "Personal Investment")
                      <=> DGt(last.personal_fv_aftertax, last.keren_fv)
               /\ (call.winner = "Keren Hishtalmut")
                      <=> DLt(last.personal_fv_aftertax, last.keren_fv)
               /\ (call.winner = "Tie") <=> (last.personal_fv_aftertax = last.keren_fv)
               /\ (call.winner = "Keren Hishtalmut") <=> last.keren_wins

\* the fund wins at a horizon two years beyond the lockup, with a tax and with
\* contributions
C18_Witness ==
    /\ pc = "returned"
    /\ call # Unset
    /\ call.winner = "Keren Hishtalmut"
    /\ inputs.horizon_years = inputs.keren_lockup_years + 2
    /\ inputs.capital_gains_tax # Zero
    /\ inputs.monthly_contribution # Zero
    /\ DGt(result.personal_effective_return, Zero)

\* C19: the net fund return run_comparison uses is (1 + gross) * (1 - fee) - 1
\* when keren_return_is_net is false and the stated return, the fee ignored,
\* when it is true; the effective personal return is personal return - tax drag
\* when include_tax_drag is true and the personal return, the drag ignored,
\* when it is false; both are stored in the ComparisonResult returned (checked
\* where the run returns, before anything is done with the result).
C19_DerivedReturns ==
    (pc = "returned" /\ found = Unset /\ call = Unset) =>
        \E net \in {IF inputs.keren_return_is_net THEN inputs.keren_gross_return
                    ELSE DSub(DMul(DAdd(One, inputs.keren_gross_return),
                                   DSub(One, inputs.keren_mgmt_fee)), One)} :
        \E effective \in {IF inputs.include_tax_drag
                          THEN DSub(inputs.personal_return, inputs.annual_tax_drag)
                          ELSE inputs.personal_return} :
            /\ result.keren_net_return = net
            /\ result.personal_effective_return = effective
            /\ keren_net_return = net
            /\ personal_effective_return = effective
            /\ \A i \in DOMAIN result.yearly_results :
                   result.yearly_results[i].keren_fv =
                       calculate_keren_fv(inputs.principal, net, result.yearly_results[i].year,
                                          inputs.monthly_contribution)

\* a run returned whose stated fund return is net although a fee is given, and
\* whose tax drag is given but switched off
C19_Witness ==
    /\ pc = "returned"
    /\ inputs.keren_return_is_net
    /\ inputs.keren_mgmt_fee # Zero
    /\ inputs.keren_gross_return # Zero
    /\ ~inputs.include_tax_drag
    /\ inputs.annual_tax_drag # Zero
    /\ result.keren_net_return = inputs.keren_gross_return
    /\ result.personal_effective_return = inputs.personal_return

\* the yearly result of year y as the inputs i alone determine it
YearlyResultOf(i, y) ==
    Let2(calculate_keren_fv(i.principal, get_keren_net_return(i), y, i.monthly_contribution),
         get_personal_effective_return(i),
         LAMBDA keren_fv, r :
        IF y <= i.keren_lockup_years
        THEN [year |-> y, keren_fv |-> keren_fv, personal_fv_pretax |-> keren_fv,
              personal_fv_aftertax |-> keren_fv, keren_wins |-> FALSE]
        ELSE Let2(FundValueAtLockup(i), y - i.keren_lockup_years, LAMBDA W, n :
             Let(PersonalFvAfterLockup(W, r, i.capital_gains_tax, i.monthly_contribution, n),
                 LAMBDA personal :
                 [year |-> y, keren_fv |-> keren_fv,
                  personal_fv_pretax |->
                      DAdd(GrownLumpSum(W, r, n),
                           calculate_personal_fv_pretax(Zero, r, n, i.monthly_contribution)),
                  personal_fv_aftertax |-> personal,
                  keren_wins |-> DGt(keren_fv, personal)])))

\* the years 1..y of the series as the inputs i alone determine it
RECURSIVE SeriesUpTo(_, _)
SeriesUpTo(i, y) ==
    IF y = 0 THEN <<>> ELSE Append(SeriesUpTo(i, y - 1), YearlyResultOf(i, y))

\* the series as the inputs i alone determine it
SeriesOf(i) == SeriesUpTo(i, i.horizon_years)

\* C20: run_comparison leaves every field of the InvestmentInputs record it is
\* given unchanged, the inputs field of the ComparisonResult it returns is that
\* record, and the yearly series and the break-even year it returns are
\* determined by the record alone, so that two calls with equal records return
\* equal series and equal break-even years.
C20_InputsFrame ==
    /\ [][inputs' = inputs]_vars
    /\ [](pc = "returned" => result.inputs = inputs)
    /\ []((pc = "returned" /\ found = Unset /\ call = Unset) =>
             \E series \in {SeriesOf(inputs)} :
                 /\ result.yearly_results = series
                 /\ result.breakeven_year =
                        FirstBreakevenYear(series, inputs.keren_lockup_years))

\* a run over three years returned for a record that states a gross fund
\* return and a fee
C20_Witness ==
    /\ pc = "returned"
    /\ ~inputs.keren_return_is_net
    /\ inputs.keren_mgmt_fee # Zero
    /\ inputs.horizon_years = 3
    /\ inputs.monthly_contribution # Zero
    /\ result.inputs = inputs
    /\ Len(result.yearly_results) = 3

\* C21: for two records that differ in the horizon only, H1 < H2, the series
\* run_comparison returns for H1 is the first H1 entries of the series it
\* returns for H2, and the break-even year it returns for H1 is the one it
\* returns for H2 when that one is <= H1, and None otherwise.
C21_HorizonPrefix ==
    (pc = "returned" /\ call # Unset) =>
        \E H1 \in {call.inputs.horizon_years} :
            /\ call.inputs = [inputs EXCEPT !.horizon_years = H1]
            /\ H1 < inputs.horizon_years
            /\ call.value.yearly_results = SubSeq(result.yearly_results, 1, H1)
            /\ call.value.breakeven_year =
                   IF result.breakeven_year # None /\ result.breakeven_year.int <= H1
                   THEN result.breakeven_year ELSE None

\* two runs with contributions and a tax, over horizons 2 and 3 and a lockup
\* of one year: the longer run breaks even in its last year, the shorter never
C21_Witness ==
    /\ pc = "returned"
    /\ call # Unset
    /\ call.inputs.horizon_years = 2
    /\ inputs.horizon_years = 3
    /\ inputs.keren_lockup_years = 1
    /\ inputs.monthly_contribution # Zero
    /\ inputs.capital_gains_tax # Zero
    /\ result.breakeven_year = IntVal(3)
    /\ call.value.breakeven_year = None

\* C23: in the figure create_sensitivity_heatmap returns, the annotation of a
\* cell is ">50" exactly when find_breakeven_year, searching up to year 50,
\* returned None for the cell; a break-even year it found, year 50 included, is
\* annotated with that year.
C23_CeilingAnnotation ==
    (call # Unset /\ call.fn = "create_sensitivity_heatmap") =>
        /\ call.value # ZeroDivisionError
        /\ \A i \in DOMAIN call.personal_returns : \A j \in DOMAIN call.tax_rates :
             \E text \in {call.value.annotations[i][j]} :
             \E be \in {find_breakeven_year(call.principal, call.rate, call.personal_returns[i],
                                            call.tax_rates[j], call.monthly_contribution,
                                            HeatmapCeiling, call.keren_lockup_years)} :
               /\ (text = ">50") <=> (be = None)
               /\ be # None => text = ToString(be.int)

\* C22: in every yearly outcome run_comparison returns for a record with an
\* effective personal return >= 0, a tax rate in [0, 1) and non-negative
\* amounts, the personal post-tax value is <= the personal pre-tax value of the
\* year, years after lockup with a monthly contribution > 0 included.
C22_AftertaxAtMostPretax ==
    (/\ pc = "returned"
     /\ ~personal_effective_return.neg
     /\ ~inputs.capital_gains_tax.neg /\ DLt(inputs.capital_gains_tax, One)
     /\ ~inputs.principal.neg /\ ~inputs.monthly_contribution.neg) =>
        \A i \in DOMAIN result.yearly_results :
            DGe(result.yearly_results[i].personal_fv_pretax,
                result.yearly_results[i].personal_fv_aftertax)

\* C24: when lockup >= horizon, run_comparison returns a series in which the
\* personal pre-tax and post-tax values of every year equal the fund value and
\* every fund-wins flag is false, the break-even year is None, and the winner
\* label shown for the result is "Tie".
C24_LockupCoversHorizon ==
    (/\ pc = "returned"
     /\ call # Unset
     /\ inputs.keren_lockup_years >= inputs.horizon_years) =>
        /\ Len(result.yearly_results) = inputs.horizon_years
        /\ \A i \in DOMAIN result.yearly_results :
               /\ result.yearly_results[i].personal_fv_pretax = result.yearly_results[i].keren_fv
               /\ result.yearly_results[i].personal_fv_aftertax = result.yearly_results[i].keren_fv
               /\ ~result.yearly_results[i].keren_wins
        /\ result.breakeven_year = None
        /\ call.winner = "Tie"

\* the result of a run over a horizon of one year with a lockup of two, with
\* contributions, a tax, a growing fund and a different personal return, shown
C24_Witness ==
    /\ pc = "returned"
    /\ call # Unset
    /\ call.winner = "Tie"
    /\ inputs.keren_lockup_years = 2
    /\ inputs.horizon_years = 1
    /\ inputs.monthly_contribution # Zero
    /\ inputs.principal # Zero
    /\ inputs.capital_gains_tax # Zero
    /\ DGt(keren_net_return, Zero)
    /\ personal_effective_return # keren_net_return
    /\ DGt(result.yearly_results[1].keren_fv, PaidIn(inputs.principal, inputs.monthly_contribution, 1))

=============================================================================
